---- MODULE Spec2Model ----
(***************************************************************************)
(* Model of scripts/validate_docs_naming.py: the file-name predicate       *)
(* validate_filename (a regular-expression match) and the scan/report loop *)
(* of main().                                                              *)
(*                                                                         *)
(* A file name is a sequence of characters; a character is a one-character *)
(* string, a non-ASCII character is written as its code point ("U+6587").  *)
(***************************************************************************)
EXTENDS Integers, Sequences, FiniteSets, TLC

VARIABLES
    pc,             \* position of main(): "Init", "Scanning", "Reporting", "Done"
    dirExists,      \* os.path.exists(docs_dir)
    listing,        \* os.listdir(docs_dir) with os.path.isdir of every child
    idx,            \* index in listing of the child the for loop handles next
    total_files,    \* main's total_files
    valid_files,    \* main's valid_files
    invalid_files,  \* main's invalid_files
    output,         \* the lines printed so far
    exitCode,       \* argument of sys.exit, -1 while the process runs
    vname,          \* argument of a direct call of validate_filename
    vorigin,        \* how vname was built: "exact", "parts", "edited"
    vresult         \* <<result>> of the direct call, <<>> before it

vars == <<pc, dirExists, listing, idx, total_files, valid_files, invalid_files,
          output, exitCode, vname, vorigin, vresult>>

runVars == <<pc, dirExists, listing, idx, total_files, valid_files,
             invalid_files, output, exitCode>>

validateVars == <<vname, vorigin, vresult>>

----------------------------------------------------------------------------
(* Bounds *)

\* longest letter segment of a generated file name
MaxSeg == 2

\* largest number of children of the docs directory
MaxChildren == 3

----------------------------------------------------------------------------
(* Characters *)

UpperLetters ==
    {"A", "B", "C", "D", "E", "F", "G", "H", "I", "J", "K", "L", "M",
     "N", "O", "P", "Q", "R", "S", "T", "U", "V", "W", "X", "Y", "Z"}

LowerLetters ==
    {"a", "b", "c", "d", "e", "f", "g", "h", "i", "j", "k", "l", "m",
     "n", "o", "p", "q", "r", "s", "t", "u", "v", "w", "x", "y", "z"}

\* the character class [A-Za-z]
Letters == UpperLetters \cup LowerLetters

\* the alternation (META|ARCH|SPEC|IMPL|QA) with its last branch lost
TagAlternativesNoQA ==
    { <<"M", "E", "T", "A">>, <<"A", "R", "C", "H">>, <<"S", "P", "E", "C">>,
      <<"I", "M", "P", "L">> }

\* the alternation (META|ARCH|SPEC|IMPL|QA)
TagAlternatives ==
    { <<"M", "E", "T", "A">>, <<"A", "R", "C", "H">>, <<"S", "P", "E", "C">>,
      <<"I", "M", "P", "L">>, <<"Q", "A">> }

Hyphen == <<"-">>

\* the literal \.md
DotMd == <<".", "m", "d">>

----------------------------------------------------------------------------
(* re.match(pattern, name): every operator maps the set P of offsets the    *)
(* match can have reached (characters consumed) to the set of offsets it    *)
(* can reach after one more element of the pattern.                         *)

\* ^ : start of the string
MatchCaret(s, P) == {p \in P : p = 0}

\* a literal string
MatchLiteral(s, P, lit) ==
    {p + Len(lit) : p \in {q \in P : /\ q + Len(lit) <= Len(s)
                                      /\ SubSeq(s, q + 1, q + Len(lit)) = lit}}

\* ( a | b | ... )
MatchAlternation(s, P, alts) == UNION {MatchLiteral(s, P, a) : a \in alts}

\* [class]+ : one or more characters of the class
MatchPlus(s, P, class) ==
    {e \in 1..Len(s) : \E p \in P : /\ p < e
                                    /\ \A k \in (p + 1)..e : s[k] \in class}

\* $ of Python's re without MULTILINE: the end of the string, or just before
\* a line break that is the last character of the string
MatchDollar(s, P) ==
    {p \in P : \/ p = Len(s)
               \/ p = Len(s) - 1 /\ s[Len(s)] = "\n"}

\* re.match(r'^(META|ARCH|SPEC|IMPL|QA)-[A-Za-z]+-[A-Za-z]+\.md$', s)
re_match(s) ==
    LET p0 == MatchCaret(s, {0})
        p1 == MatchAlternation(s, p0, TagAlternatives)
        p2 == MatchLiteral(s, p1, Hyphen)
        p3 == MatchPlus(s, p2, Letters)
        p4 == MatchLiteral(s, p3, Hyphen)
        p5 == MatchPlus(s, p4, Letters)
        p6 == MatchLiteral(s, p5, DotMd)
    IN  MatchDollar(s, p6)

\* bool(re.match(pattern, name))
validate_filename(name) == re_match(name) # {}

----------------------------------------------------------------------------
(* The Naming Pattern as the specification states it: the whole name is a   *)
(* tag, a hyphen, one or more ASCII letters, a hyphen, one or more ASCII    *)
(* letters and the suffix .md, and nothing else.                            *)

\* the five category tags
CategoryTags ==
    { <<"M", "E", "T", "A">>, <<"A", "R", "C", "H">>, <<"S", "P", "E", "C">>,
      <<"I", "M", "P", "L">>, <<"Q", "A">> }

\* ASCII letters of either case
AsciiLetters ==
    {"A", "B", "C", "D", "E", "F", "G", "H", "I", "J", "K", "L", "M",
     "N", "O", "P", "Q", "R", "S", "T", "U", "V", "W", "X", "Y", "Z",
     "a", "b", "c", "d", "e", "f", "g", "h", "i", "j", "k", "l", "m",
     "n", "o", "p", "q", "r", "s", "t", "u", "v", "w", "x", "y", "z"}

AllLetters(s) == \A k \in 1..Len(s) : s[k] \in AsciiLetters

NamingPattern(name) ==
    \E tag \in CategoryTags :
        \E n1 \in 1..Len(name) : \E n2 \in 1..Len(name) :
            LET t == Len(tag)
            IN  /\ Len(name) = t + 1 + n1 + 1 + n2 + 3
                /\ SubSeq(name, 1, t) = tag
                /\ name[t + 1] = "-"
                /\ AllLetters(SubSeq(name, t + 2, t + 1 + n1))
                /\ name[t + 2 + n1] = "-"
                /\ AllLetters(SubSeq(name, t + 3 + n1, t + 2 + n1 + n2))
                /\ SubSeq(name, t + 3 + n1 + n2, Len(name)) = <<".", "m", "d">>

----------------------------------------------------------------------------
(* Direct calls of validate_filename on generated names *)

SeqsUpTo(S, n) == UNION {[1..k -> S] : k \in 1..n}

\* letters at both ends of both ranges of [A-Za-z]
SampleLetters == {"a", "Z"}

SegExact == SeqsUpTo(SampleLetters, MaxSeg)

\* a digit or a punctuation character in a segment, and the empty segment
SegWrong == { <<>>, <<"1">>, <<"a", "1">>, <<"a", ".">>, <<"a", "_", "Z">> }

TagWrong ==
    { <<"s", "p", "e", "c">>, <<"M", "e", "t", "a">>, <<"D", "O", "C">>,
      <<"Q", "A", "X">>, <<>> }

SepWrong == { <<>>, <<"_">> }

ExtWrong ==
    { <<".", "t", "x", "t">>, <<".", "M", "D">>, <<"m", "d">>, <<>>,
      <<".", "m", "d", "x">> }

\* the characters an edit inserts or substitutes: letters, digits, hyphen,
\* dot, space, line break and the neighbours of the letter ranges
EditAlphabet ==
    {"a", "Z", "0", "9", "-", ".", "_", " ", "\n", "@", "[", "{"}

Compose(tag, sep1, seg1, sep2, seg2, ext) ==
    tag \o sep1 \o seg1 \o sep2 \o seg2 \o ext

InsertAt(s, pos, c) == SubSeq(s, 1, pos) \o <<c>> \o SubSeq(s, pos + 1, Len(s))

DeleteAt(s, pos) == SubSeq(s, 1, pos - 1) \o SubSeq(s, pos + 1, Len(s))

ReplaceAt(s, pos, c) == [s EXCEPT ![pos] = c]

RunIdle ==
    /\ pc = "Init"
    /\ dirExists = FALSE
    /\ listing = <<>>
    /\ idx = 1
    /\ total_files = 0
    /\ valid_files = 0
    /\ invalid_files = <<>>
    /\ output = <<>>
    /\ exitCode = -1

InitValidate ==
    /\ RunIdle
    /\ vresult = <<>>
    /\ \E tag \in CategoryTags \cup TagWrong :
       \E sep1 \in {<<"-">>} \cup SepWrong :
       \E seg1 \in SegExact \cup SegWrong :
       \E sep2 \in {<<"-">>} \cup SepWrong :
       \E seg2 \in SegExact \cup SegWrong :
       \E ext \in {<<".", "m", "d">>} \cup ExtWrong :
          /\ vname = Compose(tag, sep1, seg1, sep2, seg2, ext)
          /\ vorigin = IF /\ tag \in CategoryTags
                          /\ sep1 = <<"-">> /\ sep2 = <<"-">>
                          /\ seg1 \in SegExact /\ seg2 \in SegExact
                          /\ ext = <<".", "m", "d">>
                       THEN "exact" ELSE "parts"

\* one extra character anywhere in a name of the exact form, the ends included
InsertChar ==
    /\ vorigin = "exact" /\ vresult = <<>>
    /\ \E pos \in 0..Len(vname) : \E c \in EditAlphabet :
          vname' = InsertAt(vname, pos, c)
    /\ vorigin' = "edited"
    /\ UNCHANGED <<vresult, runVars>>

\* one character of a name of the exact form missing
DeleteChar ==
    /\ vorigin = "exact" /\ vresult = <<>>
    /\ \E pos \in 1..Len(vname) : vname' = DeleteAt(vname, pos)
    /\ vorigin' = "edited"
    /\ UNCHANGED <<vresult, runVars>>

\* one character of a name of the exact form replaced by another
ReplaceChar ==
    /\ vorigin = "exact" /\ vresult = <<>>
    /\ \E pos \in 1..Len(vname) : \E c \in EditAlphabet \ {vname[pos]} :
          vname' = ReplaceAt(vname, pos, c)
    /\ vorigin' = "edited"
    /\ UNCHANGED <<vresult, runVars>>

\* result = validate_filename(vname)
CallValidate ==
    /\ vresult = <<>>
    /\ vresult' = <<validate_filename(vname)>>
    /\ UNCHANGED <<vname, vorigin, runVars>>

NextValidate == InsertChar \/ DeleteChar \/ ReplaceChar \/ CallValidate

SpecValidate == InitValidate /\ [][NextValidate]_vars

----------------------------------------------------------------------------
(* C1: every file name that does not match the Naming Pattern as a whole    *)
(* string is rejected: validate_filename returns false for it.  The names   *)
(* tried are those built from a wrong tag, separator, segment or extension  *)
(* and every one-character insertion, deletion and substitution of a        *)
(* matching name.                                                           *)
C1_NonMatchingRejected ==
    (vresult # <<>> /\ ~NamingPattern(vname)) => vresult = <<FALSE>>

(* C2: every file name of the exact form <tag>-<letters>-<letters>.md is    *)
(* accepted: validate_filename returns true for it.                         *)
C2_ExactFormAccepted ==
    (vresult # <<>> /\ (vorigin = "exact" \/ NamingPattern(vname)))
        => vresult = <<TRUE>>

\* QA-aZ-Za.md, built from its parts, has been accepted
C2_Witness ==
    /\ vorigin = "exact"
    /\ vname = <<"Q", "A", "-", "a", "Z", "-", "Z", "a", ".", "m", "d">>
    /\ vresult = <<TRUE>>

----------------------------------------------------------------------------
(* main(): the scan of the docs directory and its report *)

\* redirect_files, the names exempt from the naming rule
redirect_files ==
    << <<"0", "0", "-", "d", "o", "c", "u", "m", "e", "n", "t", "-", "m", "e", "t", "a", ".", "m", "d">>,
       <<"0", "1", "-", "c", "o", "r", "e", "-", "p", "r", "i", "n", "c", "i", "p", "l", "e", "s", ".", "m", "d">>,
       <<"0", "2", "-", "s", "y", "s", "t", "e", "m", "-", "a", "r", "c", "h", "i", "t", "e", "c", "t", "u", "r", "e", ".", "m", "d">>,
       <<"0", "2", "b", "-", "s", "t", "a", "t", "e", "-", "m", "a", "c", "h", "i", "n", "e", "-", "s", "p", "e", "c", "i", "f", "i", "c", "a", "t", "i", "o", "n", ".", "m", "d">>,
       <<"0", "3", "-", "c", "o", "n", "t", "r", "a", "c", "t", "s", ".", "m", "d">>,
       <<"0", "4", "-", "t", "e", "s", "t", "i", "n", "g", "-", "a", "r", "c", "h", "i", "t", "e", "c", "t", "u", "r", "e", ".", "m", "d">>,
       <<"0", "5", "-", "i", "m", "p", "l", "e", "m", "e", "n", "t", "a", "t", "i", "o", "n", "-", "p", "l", "a", "n", ".", "m", "d">>,
       <<"0", "6", "-", "j", "s", "o", "n", "-", "e", "x", "a", "m", "p", "l", "e", ".", "m", "d">>,
       <<"U+6587", "U+6863", "U+5BFC", "U+822A", ".", "m", "d">>,
       <<"U+6A21", "U+5757", "U+5316", "U+8BF4", "U+660E", "U+65B9", "U+6848", ".", "m", "d">> >>

\* filename in redirect_files
InRedirectFiles(filename) ==
    \E i \in 1..Len(redirect_files) : redirect_files[i] = filename

\* the names the children of the docs directory are drawn from
ChildNames ==
    { <<"A", "R", "C", "H", "-", "F", "o", "o", "-", "B", "a", "r", ".", "m", "d">>,
      <<"M", "E", "T", "A", "-", "A", "-", "B", ".", "m", "d">>,
      <<"M", "E", "T", "A", "-", "A", "-", "B", ".", "m", "d", "\n">>,
      <<"R", "E", "A", "D", "M", "E", ".", "m", "d">>,
      <<"s", "p", "e", "c", "-", "a", "-", "b", ".", "m", "d">>,
      <<"s", "u", "b">>,
      <<"0", "3", "-", "c", "o", "n", "t", "r", "a", "c", "t", "s", ".", "m", "d">>,
      <<"U+6587", "U+6863", "U+5BFC", "U+822A", ".", "m", "d">> }

\* a directory listing: children with distinct names, in any order
Listings ==
    {l \in UNION {[1..k -> [name : ChildNames, isdir : BOOLEAN]] : k \in 0..MaxChildren} :
        \A i \in 1..Len(l) : \A j \in 1..Len(l) : l[i].name = l[j].name => i = j}

\* one printed line
Line(kind, text) == [kind |-> kind, text |-> text]

ValidateIdle ==
    /\ vname = <<>>
    /\ vorigin = "none"
    /\ vresult = <<>>

Init ==
    /\ pc = "Init"
    /\ dirExists \in BOOLEAN
    /\ listing \in Listings
    /\ (~dirExists => listing = <<>>)
    /\ idx = 1
    /\ total_files = 0
    /\ valid_files = 0
    /\ invalid_files = <<>>
    /\ output = <<>>
    /\ exitCode = -1
    /\ ValidateIdle

\* Start without sys.exit(1): a missing directory is reported and the scan
\* goes on over an empty listing
StartNoExit ==
    /\ pc = "Init"
    /\ total_files' = 0
    /\ valid_files' = 0
    /\ invalid_files' = <<>>
    /\ idx' = 1
    /\ output' = IF ~dirExists
                 THEN output \o <<Line("banner", <<>>), Line("docs_dir", <<>>),
                                  Line("pattern", <<>>), Line("missing_dir", <<>>)>>
                 ELSE output \o <<Line("banner", <<>>), Line("docs_dir", <<>>),
                                  Line("pattern", <<>>)>>
    /\ exitCode' = exitCode
    /\ pc' = "Scanning"
    /\ UNCHANGED <<dirExists, listing, validateVars>>

\* the banner, the counters, the existence check and os.listdir
Start ==
    /\ pc = "Init"
    /\ total_files' = 0
    /\ valid_files' = 0
    /\ invalid_files' = <<>>
    /\ idx' = 1
    /\ IF ~dirExists
       THEN /\ output' = output \o <<Line("banner", <<>>), Line("docs_dir", <<>>),
                                    Line("pattern", <<>>), Line("missing_dir", <<>>)>>
            /\ exitCode' = 1
            /\ pc' = "Done"
       ELSE /\ output' = output \o <<Line("banner", <<>>), Line("docs_dir", <<>>),
                                    Line("pattern", <<>>)>>
            /\ exitCode' = exitCode
            /\ pc' = "Scanning"
    /\ UNCHANGED <<dirExists, listing, validateVars>>

\* SkipDirectory with the directory check below total_files += 1
SkipDirectoryCounted ==
    /\ pc = "Scanning" /\ idx <= Len(listing)
    /\ listing[idx].isdir
    /\ total_files' = total_files + 1
    /\ idx' = idx + 1
    /\ UNCHANGED <<pc, dirExists, listing, valid_files,
                   invalid_files, output, exitCode, validateVars>>

\* the loop body for a child that is a directory
SkipDirectory ==
    /\ pc = "Scanning" /\ idx <= Len(listing)
    /\ listing[idx].isdir
    /\ idx' = idx + 1
    /\ UNCHANGED <<pc, dirExists, listing, total_files, valid_files,
                   invalid_files, output, exitCode, validateVars>>

\* SkipRedirect without its continue: the exempt name goes on to
\* validate_filename
SkipRedirectFallThrough ==
    /\ pc = "Scanning" /\ idx <= Len(listing)
    /\ ~listing[idx].isdir
    /\ total_files' = total_files + 1
    /\ InRedirectFiles(listing[idx].name)
    /\ IF validate_filename(listing[idx].name)
       THEN /\ valid_files' = valid_files + 1
            /\ invalid_files' = invalid_files
            /\ output' = output \o <<Line("skipped", listing[idx].name),
                                    Line("valid", listing[idx].name)>>
       ELSE /\ valid_files' = valid_files
            /\ invalid_files' = Append(invalid_files, listing[idx].name)
            /\ output' = output \o <<Line("skipped", listing[idx].name),
                                    Line("invalid", listing[idx].name)>>
    /\ idx' = idx + 1
    /\ UNCHANGED <<pc, dirExists, listing, exitCode, validateVars>>

\* SkipRedirect with the exemption test above total_files += 1
SkipRedirectUncounted ==
    /\ pc = "Scanning" /\ idx <= Len(listing)
    /\ ~listing[idx].isdir
    /\ InRedirectFiles(listing[idx].name)
    /\ output' = Append(output, Line("skipped", listing[idx].name))
    /\ idx' = idx + 1
    /\ UNCHANGED <<pc, dirExists, listing, total_files, valid_files,
                   invalid_files, exitCode, validateVars>>

\* the loop body for a file of redirect_files
SkipRedirect ==
    /\ pc = "Scanning" /\ idx <= Len(listing)
    /\ ~listing[idx].isdir
    /\ total_files' = total_files + 1
    /\ InRedirectFiles(listing[idx].name)
    /\ output' = Append(output, Line("skipped", listing[idx].name))
    /\ idx' = idx + 1
    /\ UNCHANGED <<pc, dirExists, listing, valid_files, invalid_files,
                   exitCode, validateVars>>

\* the loop body for a file validate_filename accepts
CountValid ==
    /\ pc = "Scanning" /\ idx <= Len(listing)
    /\ ~listing[idx].isdir
    /\ total_files' = total_files + 1
    /\ ~InRedirectFiles(listing[idx].name)
    /\ validate_filename(listing[idx].name)
    /\ valid_files' = valid_files + 1
    /\ output' = Append(output, Line("valid", listing[idx].name))
    /\ idx' = idx + 1
    /\ UNCHANGED <<pc, dirExists, listing, invalid_files, exitCode, validateVars>>

\* RecordInvalid with insert(0, filename) for append(filename)
RecordInvalidPrepend ==
    /\ pc = "Scanning" /\ idx <= Len(listing)
    /\ ~listing[idx].isdir
    /\ total_files' = total_files + 1
    /\ ~InRedirectFiles(listing[idx].name)
    /\ ~validate_filename(listing[idx].name)
    /\ invalid_files' = <<listing[idx].name>> \o invalid_files
    /\ output' = Append(output, Line("invalid", listing[idx].name))
    /\ idx' = idx + 1
    /\ UNCHANGED <<pc, dirExists, listing, valid_files, exitCode, validateVars>>

\* the loop body for a file validate_filename rejects
RecordInvalid ==
    /\ pc = "Scanning" /\ idx <= Len(listing)
    /\ ~listing[idx].isdir
    /\ total_files' = total_files + 1
    /\ ~InRedirectFiles(listing[idx].name)
    /\ ~validate_filename(listing[idx].name)
    /\ invalid_files' = Append(invalid_files, listing[idx].name)
    /\ output' = Append(output, Line("invalid", listing[idx].name))
    /\ idx' = idx + 1
    /\ UNCHANGED <<pc, dirExists, listing, valid_files, exitCode, validateVars>>

\* the summary block printed when the loop is over
PrintSummary ==
    /\ pc = "Scanning" /\ idx > Len(listing)
    /\ output' = output \o <<Line("result", <<>>),
                             Line("total", <<total_files>>),
                             Line("valid_count", <<valid_files>>),
                             Line("invalid_count", <<Len(invalid_files)>>)>>
    /\ pc' = "Reporting"
    /\ UNCHANGED <<dirExists, listing, idx, total_files, valid_files,
                   invalid_files, exitCode, validateVars>>

\* ReportFailure printing the items by popping them off invalid_files
ReportFailureDrain ==
    /\ pc = "Reporting"
    /\ invalid_files # <<>>
    /\ output' = output \o <<Line("list", <<>>)>>
                        \o [k \in 1..Len(invalid_files) |-> Line("item", invalid_files[k])]
                        \o <<Line("failure", <<>>)>>
    /\ invalid_files' = <<>>
    /\ exitCode' = 1
    /\ pc' = "Done"
    /\ UNCHANGED <<dirExists, listing, idx, total_files, valid_files, validateVars>>

\* the itemized list, the failure notice and sys.exit(1)
ReportFailure ==
    /\ pc = "Reporting"
    /\ invalid_files # <<>>
    /\ output' = output \o <<Line("list", <<>>)>>
                        \o [k \in 1..Len(invalid_files) |-> Line("item", invalid_files[k])]
                        \o <<Line("failure", <<>>)>>
    /\ exitCode' = 1
    /\ pc' = "Done"
    /\ UNCHANGED <<dirExists, listing, idx, total_files, valid_files,
                   invalid_files, validateVars>>

\* the success notice and sys.exit(0)
ReportSuccess ==
    /\ pc = "Reporting"
    /\ invalid_files = <<>>
    /\ output' = Append(output, Line("success", <<>>))
    /\ exitCode' = 0
    /\ pc' = "Done"
    /\ UNCHANGED <<dirExists, listing, idx, total_files, valid_files,
                   invalid_files, validateVars>>

Next ==
    \/ Start
    \/ SkipDirectory
    \/ SkipRedirect
    \/ CountValid
    \/ RecordInvalid
    \/ PrintSummary
    \/ ReportFailure
    \/ ReportSuccess

Spec == Init /\ [][Next]_vars

----------------------------------------------------------------------------
(* Properties of main() *)

Range(f) == {f[i] : i \in DOMAIN f}

\* the children the loop has handled
Handled == 1..(idx - 1)

IsFile(k) == ~listing[k].isdir

\* a file whose name equals an entry of the Exemption Set
IsExempt(k) == IsFile(k) /\ listing[k].name \in Range(redirect_files)

\* the number of exempt files seen so far
ExemptSeen == Cardinality({k \in Handled : IsExempt(k)})

\* the printed lines of the kinds K
LinesOf(K) == {i \in DOMAIN output : output[i].kind \in K}

\* the printed lines of the kinds K that name the file n
LinesNaming(K, n) == {i \in LinesOf(K) : output[i].text = n}

FileNotices == {"skipped", "valid", "invalid"}

SummaryLines == {"result", "total", "valid_count", "invalid_count"}

FinalLines == {"list", "item", "failure", "success"}

README == <<"R", "E", "A", "D", "M", "E", ".", "m", "d">>

LowerSpec == <<"s", "p", "e", "c", "-", "a", "-", "b", ".", "m", "d">>

MetaAB == <<"M", "E", "T", "A", "-", "A", "-", "B", ".", "m", "d">>

Contracts == <<"0", "3", "-", "c", "o", "n", "t", "r", "a", "c", "t", "s", ".", "m", "d">>

Navigation == <<"U+6587", "U+6863", "U+5BFC", "U+822A", ".", "m", "d">>

(* C3: a finished run has exit code 0 or 1; it is 0 exactly when the        *)
(* directory exists and every non-exempt file name matches the Naming       *)
(* Pattern, and 1 exactly when the directory is missing or some non-exempt  *)
(* file name fails the pattern.                                             *)
C3_ExitCode ==
    pc = "Done" =>
        LET violation == \E k \in 1..Len(listing) :
                            /\ IsFile(k) /\ ~IsExempt(k)
                            /\ ~NamingPattern(listing[k].name)
        IN  /\ exitCode \in {0, 1}
            /\ exitCode = 0 <=> (dirExists /\ ~violation)
            /\ exitCode = 1 <=> (~dirExists \/ violation)

(* C4: when the directory is missing the run reports it and ends with exit  *)
(* code 1 before any child is handled: no per-file notice, no summary, no   *)
(* final notice, and the three counters are zero.                           *)
C4_MissingDirectory ==
    (pc = "Done" /\ ~dirExists) =>
        /\ exitCode = 1
        /\ LinesOf({"missing_dir"}) # {}
        /\ LinesOf(FileNotices \cup SummaryLines \cup FinalLines) = {}
        /\ idx = 1
        /\ total_files = 0 /\ valid_files = 0 /\ invalid_files = <<>>

C4_Witness ==
    /\ pc = "Done" /\ ~dirExists /\ exitCode = 1
    /\ output[Len(output)].kind = "missing_dir"

(* C5: an exempt file is reported as skipped and is neither counted valid   *)
(* nor listed invalid; a directory whose files are all exempt ends with no  *)
(* invalid name and exit code 0.                                            *)
C5_ExemptBypass ==
    /\ [][(pc = "Scanning" /\ idx <= Len(listing) /\ IsExempt(idx)) =>
            /\ valid_files' = valid_files
            /\ invalid_files' = invalid_files
            /\ output' = Append(output, Line("skipped", listing[idx].name))]_vars
    /\ [](\A k \in Handled : IsExempt(k) =>
            /\ Cardinality(LinesNaming({"skipped"}, listing[k].name)) = 1
            /\ LinesNaming({"valid", "invalid", "item"}, listing[k].name) = {}
            /\ listing[k].name \notin Range(invalid_files))
    /\ []((pc = "Done" /\ dirExists /\ \A k \in 1..Len(listing) : IsFile(k) => IsExempt(k)) =>
            /\ Len(invalid_files) = 0
            /\ valid_files = 0
            /\ exitCode = 0)

C5_Witness ==
    /\ pc = "Done" /\ dirExists /\ exitCode = 0
    /\ listing = <<[name |-> Navigation, isdir |-> FALSE],
                   [name |-> Contracts, isdir |-> FALSE]>>
    /\ total_files = 2 /\ valid_files = 0 /\ invalid_files = <<>>

(* C6: in every state of a scan, total files = valid count + invalid count  *)
(* + number of exempt files seen so far.                                    *)
C6_CountersConsistent ==
    total_files = valid_files + Len(invalid_files) + ExemptSeen

C6_Witness ==
    /\ pc = "Done" /\ dirExists
    /\ total_files = 3 /\ valid_files = 1 /\ Len(invalid_files) = 1 /\ ExemptSeen = 1

(* C7: a child that is a directory changes none of total files, valid count *)
(* and the invalid-name list and prints nothing, whatever its name; the     *)
(* exit code is the one the non-directory children alone determine.         *)
C7_DirectoriesIgnored ==
    /\ [][(pc = "Scanning" /\ idx <= Len(listing) /\ listing[idx].isdir) =>
            <<total_files, valid_files, invalid_files, output>>' =
                <<total_files, valid_files, invalid_files, output>>]_vars
    /\ [](\A k \in 1..Len(listing) : listing[k].isdir =>
            LinesNaming(FileNotices \cup {"item"}, listing[k].name) = {})
    /\ []((pc = "Done" /\ dirExists) =>
            LET files == SelectSeq(listing, LAMBDA c : ~c.isdir)
                rejected == \E i \in 1..Len(files) :
                               /\ files[i].name \notin Range(redirect_files)
                               /\ ~validate_filename(files[i].name)
            IN  /\ total_files = Len(files)
                /\ exitCode = IF rejected THEN 1 ELSE 0)

C7_Witness ==
    /\ pc = "Done" /\ dirExists /\ exitCode = 0
    /\ listing = <<[name |-> README, isdir |-> TRUE],
                   [name |-> MetaAB, isdir |-> FALSE],
                   [name |-> Contracts, isdir |-> TRUE]>>
    /\ total_files = 1 /\ valid_files = 1

(* C8: a violation does not stop the scan: when the run ends every child    *)
(* has been handled and the invalid-name list holds exactly the             *)
(* non-directory, non-exempt children whose names fail the Naming Pattern.  *)
C8_FullViolationList ==
    (pc = "Done" /\ dirExists) =>
        /\ idx = Len(listing) + 1
        /\ Range(invalid_files) =
              {listing[k].name : k \in {j \in 1..Len(listing) :
                  IsFile(j) /\ ~IsExempt(j) /\ ~NamingPattern(listing[j].name)}}

(* C9: the invalid-name list, and the itemized list printed from it, keeps  *)
(* the invalid names in the order of the directory listing: it is the       *)
(* listing restricted to the invalid names, nothing moved or repeated.      *)
C9_ListingOrder ==
    LET names == [k \in 1..Len(listing) |-> listing[k].name]
        items == SelectSeq(output, LAMBDA l : l.kind = "item")
    IN  /\ invalid_files = SelectSeq(names, LAMBDA n : n \in Range(invalid_files))
        /\ (pc = "Done" /\ exitCode = 1 /\ dirExists) =>
              [i \in 1..Len(items) |-> items[i].text] = invalid_files

C9_Witness ==
    /\ pc = "Done" /\ exitCode = 1
    /\ listing = <<[name |-> LowerSpec, isdir |-> FALSE],
                   [name |-> MetaAB, isdir |-> FALSE],
                   [name |-> README, isdir |-> FALSE]>>
    /\ invalid_files = <<LowerSpec, README>>

Rank(p) ==
    CASE p = "Init" -> 0
      [] p = "Scanning" -> 1
      [] p = "Reporting" -> 2
      [] p = "Done" -> 3

(* C10: a run goes through Init, Scanning and Reporting in that order and   *)
(* never back; per-file notices come before the summary block, the summary  *)
(* block before the itemized list and the final notice; the counters do not *)
(* change once Reporting has begun; each non-directory child gets exactly   *)
(* one notice, as exempt, valid or invalid.                                 *)
C10_LinearRun ==
    /\ [][Rank(pc') >= Rank(pc)]_vars
    /\ [][(pc = "Init" /\ pc' # "Init" /\ dirExists) => pc' = "Scanning"]_vars
    /\ [][(pc = "Scanning" /\ pc' # "Scanning") => pc' = "Reporting"]_vars
    /\ [][(pc \in {"Reporting", "Done"}) =>
            <<total_files, valid_files, invalid_files>>' =
                <<total_files, valid_files, invalid_files>>]_vars
    /\ [](\A i \in DOMAIN output : \A j \in DOMAIN output : i < j =>
            /\ ~(output[i].kind \in SummaryLines /\ output[j].kind \in FileNotices)
            /\ ~(output[i].kind \in FinalLines
                   /\ output[j].kind \in SummaryLines \cup FileNotices))
    /\ [](pc \in {"Scanning", "Reporting"} => LinesOf(FinalLines) = {})
    /\ [](pc = "Scanning" => LinesOf(SummaryLines) = {})
    /\ [](pc \in {"Reporting", "Done"} /\ dirExists =>
            /\ \A s \in SummaryLines : Cardinality(LinesOf({s})) = 1
            /\ \A k \in 1..Len(listing) : IsFile(k) =>
                  Cardinality(LinesNaming(FileNotices, listing[k].name)) = 1)

C10_Witness ==
    /\ pc = "Done" /\ dirExists /\ exitCode = 1
    /\ listing = <<[name |-> README, isdir |-> FALSE],
                   [name |-> Navigation, isdir |-> FALSE],
                   [name |-> MetaAB, isdir |-> FALSE]>>
    /\ [i \in 1..Len(output) |-> output[i].kind] =
          <<"banner", "docs_dir", "pattern", "invalid", "skipped", "valid",
            "result", "total", "valid_count", "invalid_count",
            "list", "item", "failure">>

====
